---- MODULE Spec2Model ----
(***************************************************************************)
(* Concordance cache resolver of KonText (lib/conclib/calc/__init__.py)    *)
(* together with the CalcStatus record and the cache-map contract          *)
(* (lib/plugins/abstract/conc_cache.py).                                   *)
(*                                                                         *)
(* One call of find_cached_conc_base(corp, subchash, q, minsize) runs      *)
(* against a cache map that holds one entry per prefix q[:i] of the query. *)
(* While the resolver sleeps inside wait_for_conc, other processes (a      *)
(* calculation worker, another request cancelling a task) may change the   *)
(* cache map.                                                              *)
(*                                                                         *)
(* Time is counted in ticks of 0.1 s, the unit of the sleeps of            *)
(* wait_for_conc; the timestamps of a CalcStatus are whole seconds.        *)
(***************************************************************************)
EXTENDS Integers, Sequences, FiniteSets, TLC

\* ---------------------------------------------------------------- bounds

\* longest query sequence q the resolver is called with
MaxLen == 3
\* other processes act during the first MaxEnvPoll sleeps of a wait
MaxEnvPoll == 1
\* largest absolute value of minsize where the time budget is examined
MaxMinsize == 2
\* most iterations of the worker's progress loop before the engine is done
MaxIter == 4
\* ------------------------------------------------------ program constants

\* TASK_TIME_LIMIT = settings.get_int('calc_backend', 'task_time_limit', 300)
TASK_TIME_LIMIT == 300
\* wait_for_conc: time_limit = 5 if minsize >= 0 else 30
WAIT_LIMIT_PARTIAL == 5
WAIT_LIMIT_FULL == 30
\* time.sleep(i * 0.1): one tick is 0.1 s, so a second has 10 ticks
TicksPerSec == 10

\* ------------------------------------------------------------- the inputs

None == "None"

\* operations following the initial query: shuffle, and an alignment marker
\* switching the main corpus (which stands for every operation but shuffle)
FollowOps == {"f", "x-al"}

RECURSIVE SeqsOfLen(_)
SeqsOfLen(n) ==
    IF n = 0 THEN {<< >>}
    ELSE {Append(s, o) : s \in SeqsOfLen(n - 1), o \in FollowOps}

\* query sequences: a query operation followed by up to MaxLen - 1 others
Queries == UNION {{<<"q">> \o s : s \in SeqsOfLen(n)} : n \in 0..(MaxLen - 1)}

\* -1: the whole concordance, 0: any existing file, > 0: so many lines
MinSizes == {-1, 0, 1}

\* wall clock (seconds) at the moment the resolver is called
StartSec == 3 * TASK_TIME_LIMIT
\* corplib.corp_mtime(corp): modification time of the corpus indices
CorpMtime == TASK_TIME_LIMIT

VARIABLES
    q,          \* the query sequence (argument of find_cached_conc_base)
    minsize,    \* the minsize argument
    now,        \* time.time(), in ticks
    cmap,       \* cache map: prefix length i |-> CalcStatus of q[:i]
    files,      \* file system: prefix length i |-> content of its cache file
    revoked,    \* task ids on which app.control.revoke was called
    pc,         \* position of the resolver
    i,          \* loop variable of find_cached_conc_base
    t0,         \* wait_for_conc: t0
    wi,         \* wait_for_conc: i, the sleep counter
    ans,        \* find_cached_conc_base: ans
    result,     \* "running", "returned" or "raised"
    exc,        \* the exception that left find_cached_conc_base, if any
    examined,   \* history: the prefix lengths the loop has looked at
    cmap0,      \* history: cache map at the call
    files0,     \* history: file system at the call
    envSteps,   \* history: steps of other processes during the call
    worker      \* the calculation worker (ConcCalculation.__call__): its
                \* position, arguments and locals

vars == <<q, minsize, now, cmap, files, revoked, pc, i, t0, wi, ans, result,
          exc, examined, cmap0, files0, envSteps, worker>>

\* ---------------------------------------------------------- CalcStatus

\* A cache map entry. exists = FALSE: no entry for the key, i.e.
\* get_calc_status and cache_file_path both return None.
NoStatus ==
    [exists |-> FALSE, task_id |-> None, created |-> 0, last_upd |-> 0,
     concsize |-> 0, error |-> None, finished |-> FALSE]

\* CalcStatus.__init__ with the fields the constructor is given
CalcStatus(task_id, created, last_upd, concsize, error, finished) ==
    [exists |-> TRUE, task_id |-> task_id, created |-> created,
     last_upd |-> last_upd, concsize |-> concsize, error |-> error,
     finished |-> finished]

\* mutant: a clock that runs backwards
IntTime_backwards(t) == 0 - t

\* int(time.time())
IntTime(t) == t \div TicksPerSec

\* mutant: a calculation that stopped updating its status is not an error
test_error_error_only(st, time_limit, t) ==
    IF st.error # None THEN "CalcStatusException" ELSE None

\* mutant: a finished status can stall as well
test_error_finished_too(st, time_limit, t) ==
    IF st.error # None THEN "CalcStatusException"
    ELSE IF t - st.last_upd * TicksPerSec > time_limit * TicksPerSec
         THEN "CalcStatusException"
         ELSE None

\* CalcStatus.test_error at clock t (ticks): the exception returned or None
test_error(st, time_limit, t) ==
    IF st.error # None THEN "CalcStatusException"
    ELSE IF ~st.finished /\ t - st.last_upd * TicksPerSec > time_limit * TicksPerSec
         THEN "CalcStatusException"
         ELSE None

\* mutant: rows count only once the calculation is finished
has_some_result_finished_only(st, ms) ==
    st.finished /\ (ms = -1 \/ (st.concsize # 0 /\ st.concsize >= ms))

\* CalcStatus.has_some_result, by its truth value
has_some_result(st, ms) ==
    (ms = -1 /\ st.finished) \/ (st.concsize # 0 /\ st.concsize >= ms)

\* ------------------------------------------- cache map and file system

\* A cache file path is identified with the prefix length of its key;
\* NoPath stands for None.
NoPath == 0 * MaxLen

\* AbstractConcCache.cache_file_path: None if there is no entry for the key
cache_file_path(m, k) == IF m[k].exists THEN k ELSE NoPath

\* AbstractConcCache.get_calc_status (NoStatus stands for None)
get_calc_status(m, k) == m[k]

\* AbstractConcCache.refresh_map: self-repair of the backing storage, which
\* leaves the entries as they are
refresh_map(m) == m

\* AbstractConcCache.del_entry: removes the entry of exactly this key
del_entry(m, k) == [m EXCEPT ![k] = NoStatus]

\* AbstractConcCache.del_full_entry: removes all the entries with the same
\* base query q[0]; every prefix of q has the base query of q
del_full_entry(m, k) == [j \in DOMAIN m |-> NoStatus]

\* os.path.isfile
isfile(f, p) == p # NoPath /\ f[p] # "absent"

\* del_silent: os.remove, with OSError (no such file) and TypeError (path
\* is None) swallowed
del_silent(f, p) == IF p = NoPath THEN f ELSE [f EXCEPT ![p] = "absent"]

Store(m, f, rv) == [cmap |-> m, files |-> f, revoked |-> rv]

\* mutant: the cancellation leaves the cache file on storage
cancel_async_task_keep_file(S, k) ==
    LET status == get_calc_status(S.cmap, k)
    IN  Store(del_entry(S.cmap, k),
              S.files,
              IF status.exists /\ status.task_id # None
              THEN S.revoked \cup {status.task_id} ELSE S.revoked)

\* mutant: the cancellation evicts the whole chain of the base query
cancel_async_task_full(S, k) ==
    LET cachefile == cache_file_path(S.cmap, k)
        status == get_calc_status(S.cmap, k)
    IN  Store(del_full_entry(S.cmap, k),
              del_silent(S.files, cachefile),
              IF status.exists /\ status.task_id # None
              THEN S.revoked \cup {status.task_id} ELSE S.revoked)

\* cancel_async_task(cache_map, subchash, q[:k])
cancel_async_task(S, k) ==
    LET cachefile == cache_file_path(S.cmap, k)
        status == get_calc_status(S.cmap, k)
    IN  Store(del_entry(S.cmap, k),
              del_silent(S.files, cachefile),
              IF status.exists /\ status.task_id # None
              THEN S.revoked \cup {status.task_id} ELSE S.revoked)

\* ------------------------------------------------------- the resolver

\* _contains_shuffle_seq: the scan from item idx on, prev = prev_shuffle
RECURSIVE shuffle_scan(_, _, _)
shuffle_scan(q_ops, idx, prev) ==
    IF idx > Len(q_ops) THEN FALSE
    ELSE IF q_ops[idx] = "f"
         THEN IF prev THEN TRUE ELSE shuffle_scan(q_ops, idx + 1, TRUE)
         ELSE shuffle_scan(q_ops, idx + 1, FALSE)

\* mutant: two shuffles anywhere in the sequence count
contains_shuffle_seq_any_two(q_ops) ==
    Cardinality({j \in 1..Len(q_ops) : q_ops[j] = "f"}) >= 2

contains_shuffle_seq(q_ops) == shuffle_scan(q_ops, 1, FALSE)

\* mutant: the search always starts at the first prefix
srch_from_one(q_ops) == 1

\* mutant: the shuffle rule is forgotten
srch_from_len(q_ops) == Len(q_ops)

\* find_cached_conc_base: srch_from
srch_from(q_ops) == IF contains_shuffle_seq(q_ops) THEN 1 ELSE Len(q_ops)

\* qq.startswith('x-') and qq[2:], for the operations of FollowOps
AlignedCorp(op) == IF op = "x-al" THEN "al" ELSE None

\* find_cached_conc_base: the main corpus of q[:k], the last alignment
\* marker of the prefix or else the corpus itself
RECURSIVE main_corp(_, _)
main_corp(q_ops, k) ==
    IF k = 0 THEN "corp"
    ELSE IF AlignedCorp(q_ops[k]) # None THEN AlignedCorp(q_ops[k])
         ELSE main_corp(q_ops, k - 1)

\* EmptyConc(corp=corp)
EmptyConc == [kind |-> "EmptyConc", mcorp |-> "corp", path |-> NoPath,
              content |-> "absent"]

\* PyConc(mcorp, 'l', cache_path, orig_corp=corp): the concordance read
\* from the cache file
PyConc(mcorp, cache_path, f) ==
    [kind |-> "PyConc", mcorp |-> mcorp, path |-> cache_path,
     content |-> f[cache_path]]

\* whether manatee can open the file (else manatee.FileAccessError)
Loadable(content) == content \in {"partial", "complete"}

\* mutant: the long budget is granted to minsize = -1 alone
time_limit_minus_one_only(ms) ==
    IF ms = -1 THEN WAIT_LIMIT_FULL ELSE WAIT_LIMIT_PARTIAL

\* wait_for_conc: the time budget in seconds
time_limit(ms) == IF ms >= 0 THEN WAIT_LIMIT_PARTIAL ELSE WAIT_LIMIT_FULL

\* _check_result(cache_map, q[:k], subchash, minsize) at clock t
check_result(m, k, ms, t) ==
    LET status == get_calc_status(m, k) IN
    IF ~status.exists
    THEN [cmap |-> del_full_entry(m, k), exc |-> "ConcCalculationStatusException",
          has_result |-> FALSE, finished |-> FALSE]
    ELSE IF test_error(status, TASK_TIME_LIMIT, t) # None
    THEN [cmap |-> del_full_entry(m, k), exc |-> test_error(status, TASK_TIME_LIMIT, t),
          has_result |-> FALSE, finished |-> FALSE]
    ELSE [cmap |-> m, exc |-> None,
          has_result |-> ~has_some_result(status, ms), finished |-> status.finished]

\* What one step of the loop body leads to: next is "sleep" (still inside
\* wait_for_conc), "continue", "break" or "raise".
Outcome(next, S, a, e) == [next |-> next, S |-> S, ans |-> a, exc |-> e]

NoAns == [idx |-> 0, conc |-> EmptyConc]

\* mutant: the entry of a finished calculation without a file is kept
wait_for_conc_end_keep(S, k, fin) ==
    IF ~isfile(S.files, cache_file_path(S.cmap, k))
    THEN [S |-> S, ready |-> FALSE]
    ELSE [S |-> S, ready |-> TRUE]

\* mutant: the file test is inverted
wait_for_conc_end_inverted(S, k, fin) ==
    IF isfile(S.files, cache_file_path(S.cmap, k))
    THEN [S |-> IF fin THEN [S EXCEPT !.cmap = del_entry(S.cmap, k)] ELSE S,
          ready |-> FALSE]
    ELSE [S |-> S, ready |-> TRUE]

\* wait_for_conc after its loop: the file test and the value returned
wait_for_conc_end(S, k, fin) ==
    IF ~isfile(S.files, cache_file_path(S.cmap, k))
    THEN [S |-> IF fin THEN [S EXCEPT !.cmap = del_entry(S.cmap, k)] ELSE S,
          ready |-> FALSE]
    ELSE [S |-> S, ready |-> TRUE]

\* find_cached_conc_base: the loop body from the return of wait_for_conc on
\* (lines 181-201), before the except clause; cache_path is the path read
\* at the head of the iteration
after_wait(S, k, ms, fin, t, q_ops) ==
    LET w == wait_for_conc_end(S, k, fin) IN
    IF ~w.ready
    THEN Outcome("continue", IF ms # 0 THEN cancel_async_task(w.S, k) ELSE w.S,
                 NoAns, None)
    ELSE LET r == check_result(w.S.cmap, k, ms, t)
             S2 == [w.S EXCEPT !.cmap = r.cmap]
         IN  IF r.exc # None THEN Outcome("raise", S2, NoAns, r.exc)
             ELSE IF r.finished
             THEN IF Loadable(S2.files[k])
                  THEN Outcome("break", S2,
                               [idx |-> k, conc |-> PyConc(main_corp(q_ops, k), k, S2.files)],
                               None)
                  ELSE Outcome("raise", S2, NoAns, "FileAccessError")
             ELSE Outcome("break", S2, [idx |-> k, conc |-> EmptyConc], None)

\* wait_for_conc: one _check_result and the test of the while loop, at clock
\* t, the wait having started at tstart
poll(S, k, ms, t, tstart, q_ops) ==
    LET r == check_result(S.cmap, k, ms, t)
        S1 == [S EXCEPT !.cmap = r.cmap]
    IN  IF r.exc # None THEN Outcome("raise", S1, NoAns, r.exc)
        ELSE IF ~r.finished /\ t - tstart < time_limit(ms) * TicksPerSec
        THEN Outcome("sleep", S1, NoAns, None)
        ELSE after_wait(S1, k, ms, r.finished, t, q_ops)

\* except (ConcCalculationStatusException, manatee.FileAccessError)
CaughtExceptions == {"ConcCalculationStatusException", "FileAccessError"}

\* mutant: the loop body has no except clause
handle_nothing(o, k) == o

\* the except clause of the loop body: cancel the task and continue
handle(o, k) ==
    IF o.next = "raise" /\ o.exc \in CaughtExceptions
    THEN Outcome("continue", cancel_async_task(o.S, k), NoAns, None)
    ELSE o

\* ---------------------------------------------------------------- Init

\* the worker as seen by a call of the resolver: not followed step by step
\* (its effects are the steps WorkerFinish and WorkerFail)
WIdle == [pc |-> "idle"]

\* task id of the worker calculating q[:k]
TaskId(k) == "task" \o ToString(k)

\* The entries a prefix q[:k] of a query of length n can have when the
\* resolver is called, with the cache file that goes with each: no entry; a
\* finished calculation (the file complete, or lost, or unreadable; for the
\* full query, created before or after the corpus was last indexed); a
\* failed one; one in progress (just started, without or with a first partial
\* file of no lines yet; or with some lines and not updated for
\* TASK_TIME_LIMIT seconds).
InitEntries(k, n) ==
    {[st |-> NoStatus, file |-> "absent"]}
    \cup {[st |-> CalcStatus(None, c, StartSec, 2, None, TRUE), file |-> "complete"] :
            c \in IF k = n THEN {CorpMtime - 1, CorpMtime} ELSE {CorpMtime}}
    \cup {[st |-> CalcStatus(None, CorpMtime, StartSec, 2, None, TRUE), file |-> f] :
            f \in {"absent", "corrupt"}}
    \cup {[st |-> CalcStatus(TaskId(k), CorpMtime, StartSec, 0, "err", TRUE),
           file |-> "partial"]}
    \cup {[st |-> CalcStatus(TaskId(k), CorpMtime, StartSec, 0, None, FALSE), file |-> f] :
            f \in {"absent", "partial"}}
    \cup {[st |-> CalcStatus(TaskId(k), CorpMtime, StartSec - TASK_TIME_LIMIT, 1, None, FALSE),
           file |-> "partial"]}

\* the state at a call of find_cached_conc_base with q from Qs and minsize
\* from Ms
InitWith(Qs, Ms) ==
    /\ q \in Qs
    /\ minsize \in Ms
    /\ now = StartSec * TicksPerSec
    /\ \E e \in [1..Len(q) -> UNION {InitEntries(k, Len(q)) : k \in 1..Len(q)}] :
          /\ \A k \in 1..Len(q) : e[k] \in InitEntries(k, Len(q))
          /\ cmap = [k \in 1..Len(q) |-> e[k].st]
          /\ files = [k \in 1..Len(q) |-> e[k].file]
    /\ revoked = {}
    /\ pc = "start"
    /\ i = 0
    /\ t0 = 0
    /\ wi = 0
    /\ ans = NoAns
    /\ result = "running"
    /\ exc = None
    /\ examined = << >>
    /\ cmap0 = cmap
    /\ files0 = files
    /\ envSteps = 0
    /\ worker = WIdle

Init == InitWith(Queries, MinSizes)

\* ------------------------------------------------------------- actions

\* mutant: a failed record of the full query is kept
evict_full_query_stale_only(m, q_ops) ==
    LET calc_status == get_calc_status(m, Len(q_ops)) IN
    IF calc_status.exists /\ calc_status.error = None
       /\ calc_status.created - CorpMtime < 0
    THEN del_full_entry(m, Len(q_ops)) ELSE m

\* mutant: a record created in the second the corpus was indexed is stale
evict_full_query_le(m, q_ops) ==
    LET calc_status == get_calc_status(m, Len(q_ops)) IN
    IF calc_status.exists
    THEN IF calc_status.error = None
         THEN IF calc_status.created - CorpMtime <= 0
              THEN del_full_entry(m, Len(q_ops)) ELSE m
         ELSE del_full_entry(m, Len(q_ops))
    ELSE m

\* find_cached_conc_base up to the loop: refresh the map, drop a stale or
\* failed record of the full query, choose where the search starts
evict_full_query(m, q_ops) ==
    LET calc_status == get_calc_status(m, Len(q_ops)) IN
    IF calc_status.exists
    THEN IF calc_status.error = None
         THEN IF calc_status.created - CorpMtime < 0
              THEN del_full_entry(m, Len(q_ops)) ELSE m
         ELSE del_full_entry(m, Len(q_ops))
    ELSE m

Start ==
    /\ pc = "start"
    /\ cmap' = evict_full_query(refresh_map(cmap), q)
    /\ i' = srch_from(q)
    /\ ans' = NoAns
    /\ pc' = "loop"
    /\ UNCHANGED <<worker, q, minsize, now, files, revoked, t0, wi, result, exc,
                   examined, cmap0, files0, envSteps>>

\* the effect of one step of the loop body; o.t0 and o.wi are the locals of
\* wait_for_conc, which are gone once it returned
Apply(o) ==
    /\ cmap' = o.S.cmap
    /\ files' = o.S.files
    /\ revoked' = o.S.revoked
    /\ pc' = CASE o.next = "sleep" -> "sleep"
               [] o.next = "continue" -> "loop"
               [] OTHER -> "done"
    /\ i' = IF o.next = "continue" THEN i - 1 ELSE i
    /\ ans' = IF o.next = "break" THEN o.ans ELSE ans
    /\ result' = CASE o.next = "break" -> "returned"
                   [] o.next = "raise" -> "raised"
                   [] OTHER -> result
    /\ exc' = IF o.next = "raise" THEN o.exc ELSE exc
    /\ t0' = IF o.next = "sleep" THEN o.t0 ELSE 0
    /\ wi' = IF o.next = "sleep" THEN o.wi ELSE 0

\* head of an iteration: cache_file_path(subchash, q[:i]); without a path
\* the prefix is skipped, with one wait_for_conc starts with its first
\* _check_result
Examine ==
    /\ pc = "loop"
    /\ i >= 1
    /\ examined' = Append(examined, i)
    /\ IF cache_file_path(cmap, i) = NoPath
       THEN /\ i' = i - 1
            /\ UNCHANGED <<cmap, files, revoked, pc, ans, result, exc, t0, wi>>
       ELSE \E o \in {handle(poll(Store(cmap, files, revoked), i, minsize, now, now, q), i)
                        @@ [t0 |-> now, wi |-> 1]} : Apply(o)
    /\ UNCHANGED <<worker, q, minsize, now, cmap0, files0, envSteps>>

\* mutant: the sleeps stop growing at 0.3 s
sleep_ticks_capped(k) == IF k < 3 THEN k ELSE 3

\* mutant: every sleep lasts 0.1 s
sleep_ticks_const(k) == 1

\* time.sleep(i * 0.1), in ticks
sleep_ticks(k) == k

\* wait_for_conc: time.sleep(i * 0.1); i += 1; t1 = time.time() and the next
\* _check_result, up to the end of the iteration if the loop is left
SleepPoll ==
    /\ pc = "sleep"
    /\ now' = now + sleep_ticks(wi)
    /\ \E o \in {handle(poll(Store(cmap, files, revoked), i, minsize,
                               now + sleep_ticks(wi), t0, q), i)
                  @@ [t0 |-> t0, wi |-> wi + 1]} : Apply(o)
    /\ UNCHANGED <<worker, q, minsize, examined, cmap0, files0, envSteps>>

\* the loop is exhausted: return ans
Return ==
    /\ pc = "loop"
    /\ i = 0
    /\ pc' = "done"
    /\ result' = "returned"
    /\ UNCHANGED <<worker, q, minsize, now, cmap, files, revoked, i, t0, wi, ans, exc,
                   examined, cmap0, files0, envSteps>>

\* AbstractConcCache.update_calc_status: CalcStatus.update of the stored
\* status with last_upd = int(time.time())
update_finished(st, task, t) ==
    [st EXCEPT !.finished = TRUE, !.concsize = 2, !.task_id = task,
               !.last_upd = IntTime(t)]

update_error(st, t) ==
    [st EXCEPT !.finished = TRUE, !.error = "err", !.last_upd = IntTime(t)]

\* Another process acts on the entry the resolver waits for, while the
\* resolver sleeps.
EnvStep(k) ==
    /\ pc = "sleep"
    /\ wi <= MaxEnvPoll
    /\ k = i
    /\ envSteps' = envSteps + 1
    /\ cmap[k].exists
    /\ UNCHANGED <<worker, q, minsize, now, pc, i, t0, wi, ans, result, exc, examined,
                   cmap0, files0>>

\* ConcCalculation.__call__ completes: the whole result is saved and renamed
\* over the cache file, then the status is set finished
WorkerFinish(k) ==
    /\ EnvStep(k)
    /\ ~cmap[k].finished
    /\ files' = [files EXCEPT ![k] = "complete"]
    /\ cmap' = [cmap EXCEPT ![k] = update_finished(@, TaskId(k), now)]
    /\ UNCHANGED revoked

\* ConcCalculation.__call__ fails: update_calc_status(finished=True, error=e)
WorkerFail(k) ==
    /\ EnvStep(k)
    /\ ~cmap[k].finished
    /\ cmap' = [cmap EXCEPT ![k] = update_error(@, now)]
    /\ UNCHANGED <<files, revoked>>

\* another request gives up on q[:k]: cancel_async_task
OtherCancel(k) ==
    /\ EnvStep(k)
    /\ LET S == cancel_async_task(Store(cmap, files, revoked), k) IN
          /\ cmap' = S.cmap
          /\ files' = S.files
          /\ revoked' = S.revoked

Next ==
    \/ Start
    \/ Examine
    \/ SleepPoll
    \/ Return
    \/ \E k \in 1..Len(q) : WorkerFinish(k)
    \/ \E k \in 1..Len(q) : WorkerFail(k)
    \/ \E k \in 1..Len(q) : OtherCancel(k)

Spec == Init /\ [][Next]_vars

\* the steps of the resolver itself
ResolverStep ==
    \/ Start
    \/ Examine
    \/ SleepPoll
    \/ Return

\* Calls with a query of one or two operations, in which the resolver keeps
\* running: it is a sequential function, so a step of it that can be taken is
\* taken. Nothing is assumed about the other processes.
TermQueries == {s \in Queries : Len(s) <= 2}
InitTerm == InitWith(TermQueries, MinSizes)
SpecTerm == InitTerm /\ [][Next]_vars /\ WF_vars(ResolverStep)

\* calls with a single-operation query and any minsize of a wider range
WideMinSizes == (0 - MaxMinsize)..MaxMinsize
InitBudget == InitWith({<<"q">>}, WideMinSizes)
SpecBudget == InitBudget /\ [][Next]_vars

\* calls made after the corpus was indexed anew: the entry of any prefix,
\* not only that of the full query, can date from before (a finished
\* calculation of an earlier, shorter query); the other entries are absent, or
\* fresh and finished, or in progress
StaleEntries(k) ==
    {[st |-> NoStatus, file |-> "absent"],
     [st |-> CalcStatus(None, CorpMtime - 1, StartSec, 2, None, TRUE), file |-> "complete"],
     [st |-> CalcStatus(None, CorpMtime, StartSec, 2, None, TRUE), file |-> "complete"],
     [st |-> CalcStatus(TaskId(k), CorpMtime, StartSec, 0, None, FALSE), file |-> "partial"]}

InitStale ==
    /\ q \in Queries
    /\ minsize \in MinSizes
    /\ now = StartSec * TicksPerSec
    /\ \E e \in [1..Len(q) -> UNION {StaleEntries(k) : k \in 1..Len(q)}] :
          /\ \A k \in 1..Len(q) : e[k] \in StaleEntries(k)
          /\ cmap = [k \in 1..Len(q) |-> e[k].st]
          /\ files = [k \in 1..Len(q) |-> e[k].file]
    /\ revoked = {}
    /\ pc = "start"
    /\ i = 0
    /\ t0 = 0
    /\ wi = 0
    /\ ans = NoAns
    /\ result = "running"
    /\ exc = None
    /\ examined = << >>
    /\ cmap0 = cmap
    /\ files0 = files
    /\ envSteps = 0
    /\ worker = WIdle

SpecStale == InitStale /\ [][Next]_vars

\* ------------------------------------------- the calculation worker

\* The worker calculates the query q, whose cache map entry and cache file
\* (initial_args['cachefile']) are those of the full prefix.
Target == Len(q)

\* no size registered in the size index of the cache map
NoSize == 0 - 1

\* what conc.save writes: the rows the engine has produced so far
snapshot(engine) == IF engine = "finished" THEN "complete" ELSE "partial"

\* GeneralWorker.get_cached_conc_sizes: the sizes read back from a cache file
get_cached_conc_sizes(content) ==
    IF content = "complete" THEN [finished |-> TRUE, concsize |-> 2]
    ELSE [finished |-> FALSE, concsize |-> IF content = "partial" THEN 1 ELSE 0]

\* update_calc_status works on the stored status, creating it if absent
stored_or_new(st, t) ==
    IF st.exists THEN st
    ELSE CalcStatus(None, IntTime(t), IntTime(t), 0, None, FALSE)

\* mutant: the sizes are published without the finished flag
update_sizes_no_finished(m, k, sizes, t) ==
    [m EXCEPT ![k] = [stored_or_new(@, t) EXCEPT
                        !.concsize = sizes.concsize,
                        !.task_id = TaskId(k), !.last_upd = IntTime(t)]]

\* cache_map.update_calc_status(subchash, query, finished=sizes['finished'],
\* concsize=sizes['concsize'], ..., task_id=self._task_id)
update_sizes(m, k, sizes, t) ==
    [m EXCEPT ![k] = [stored_or_new(@, t) EXCEPT
                        !.finished = sizes.finished, !.concsize = sizes.concsize,
                        !.task_id = TaskId(k), !.last_upd = IntTime(t)]]

\* mutant: the failure is recorded whether or not the cache map was obtained
on_exception_always(m, k, has_map, t) ==
    [m EXCEPT ![k] = update_error(stored_or_new(@, t), t)]

\* mutant: a failure puts the status back to unfinished
on_exception_unfinished(m, k, has_map, t) ==
    IF has_map
    THEN [m EXCEPT ![k] = [update_error(stored_or_new(@, t), t) EXCEPT
                             !.finished = FALSE]]
    ELSE m

\* the except clause of the worker: if cache_map is not None:
\* cache_map.update_calc_status(subchash, query, finished=True, error=e)
on_exception(m, k, has_map, t) ==
    IF has_map THEN [m EXCEPT ![k] = update_error(stored_or_new(@, t), t)]
    ELSE m

\* mutant: the already_running flag is ignored
runs_always(already_running) == TRUE

\* if not initial_args['already_running']
runs_computation(already_running) == ~already_running

\* the variables of the resolver, which the worker does not touch
rvars == <<q, minsize, revoked, pc, i, t0, wi, ans, result, exc, examined,
           cmap0, files0, envSteps>>

\* The worker is called for a query whose entry its dispatcher registered as
\* unfinished; a cache file may be there from a calculation already running.
WInit ==
    /\ q = <<"q">>
    /\ minsize = 0
    /\ now = StartSec * TicksPerSec
    /\ cmap = <<CalcStatus(TaskId(1), CorpMtime, StartSec, 0, None, FALSE)>>
    /\ files \in {<<"absent">>, <<"partial">>}
    /\ revoked = {}
    /\ pc = "idle"
    /\ i = 0
    /\ t0 = 0
    /\ wi = 0
    /\ ans = NoAns
    /\ result = "running"
    /\ exc = None
    /\ examined = << >>
    /\ cmap0 = cmap
    /\ files0 = files
    /\ envSteps = 0
    /\ \E ar \in BOOLEAN :
          worker = [pc |-> "start", already_running |-> ar, cache_map |-> FALSE,
                    engine |-> "none", sleeptime |-> 0, iter |-> 0,
                    tmp |-> "absent", sizeidx |-> NoSize, exc |-> None]

\* corpus_manager.get_Corpus(corpus_name, subcname=subc_name)
W_OpenCorpus ==
    /\ worker.pc = "start"
    /\ worker' = [worker EXCEPT !.pc = "mapping"]
    /\ UNCHANGED <<rvars, now, cmap, files>>

\* cache_map = self._cache_factory.get_mapping(corpus_obj)
W_GetMapping ==
    /\ worker.pc = "mapping"
    /\ worker' = [worker EXCEPT !.pc = "check", !.cache_map = TRUE]
    /\ UNCHANGED <<rvars, now, cmap, files>>

\* already_running: nothing is calculated
W_Skip ==
    /\ worker.pc = "check"
    /\ ~runs_computation(worker.already_running)
    /\ worker' = [worker EXCEPT !.pc = "done"]
    /\ UNCHANGED <<rvars, now, cmap, files>>

\* conc = self.compute_conc(...); sleeptime = 0.1; time.sleep(sleeptime)
W_Compute ==
    /\ worker.pc = "check"
    /\ runs_computation(worker.already_running)
    /\ worker' = [worker EXCEPT !.pc = "first_save", !.engine = "running",
                                 !.sleeptime = 1]
    /\ now' = now + 1
    /\ UNCHANGED <<rvars, cmap, files>>

\* conc.save(initial_args['cachefile'], False, True, False): the cache file
\* itself is opened and written; while that lasts it holds a part of the rows
W_FirstSaveBegin ==
    /\ worker.pc = "first_save"
    /\ files' = [files EXCEPT ![Target] = "writing"]
    /\ worker' = [worker EXCEPT !.pc = "first_save_end"]
    /\ UNCHANGED <<rvars, now, cmap>>

W_FirstSaveEnd ==
    /\ worker.pc = "first_save_end"
    /\ files' = [files EXCEPT ![Target] = snapshot(worker.engine)]
    /\ worker' = [worker EXCEPT !.pc = "loop"]
    /\ UNCHANGED <<rvars, now, cmap>>

\* while not conc.finished()
W_LoopTest ==
    /\ worker.pc = "loop"
    /\ IF worker.engine = "finished"
       THEN worker' = [worker EXCEPT !.pc = "final_save"]
       ELSE /\ worker.iter < MaxIter
            /\ worker' = [worker EXCEPT !.pc = "tmp_save", !.iter = @ + 1]
    /\ UNCHANGED <<rvars, now, cmap, files>>

\* conc.save(tmp_cachefile, False, True, False)
W_TmpSave ==
    /\ worker.pc = "tmp_save"
    /\ worker' = [worker EXCEPT !.pc = "rename", !.tmp = snapshot(worker.engine)]
    /\ UNCHANGED <<rvars, now, cmap, files>>

\* os.rename(tmp_cachefile, initial_args['cachefile'])
W_Rename ==
    /\ worker.pc = "rename"
    /\ files' = [files EXCEPT ![Target] = worker.tmp]
    /\ worker' = [worker EXCEPT !.pc = "sleep", !.tmp = "absent"]
    /\ UNCHANGED <<rvars, now, cmap>>

\* time.sleep(sleeptime); sleeptime += 0.1
W_Sleep ==
    /\ worker.pc = "sleep"
    /\ now' = now + worker.sleeptime
    /\ worker' = [worker EXCEPT !.pc = "sizes", !.sleeptime = @ + 1]
    /\ UNCHANGED <<rvars, cmap, files>>

\* sizes = self.get_cached_conc_sizes(...); cache_map.update_calc_status(...)
W_Update ==
    /\ worker.pc = "sizes"
    /\ cmap' = update_sizes(cmap, Target, get_cached_conc_sizes(files[Target]), now)
    /\ worker' = [worker EXCEPT !.pc = "loop"]
    /\ UNCHANGED <<rvars, now, files>>

\* conc.save(tmp_cachefile), the whole concordance
W_FinalSave ==
    /\ worker.pc = "final_save"
    /\ worker' = [worker EXCEPT !.pc = "final_rename", !.tmp = snapshot(worker.engine)]
    /\ UNCHANGED <<rvars, now, cmap, files>>

\* os.rename(tmp_cachefile, initial_args['cachefile'])
W_FinalRename ==
    /\ worker.pc = "final_rename"
    /\ files' = [files EXCEPT ![Target] = worker.tmp]
    /\ worker' = [worker EXCEPT !.pc = "final_update", !.tmp = "absent"]
    /\ UNCHANGED <<rvars, now, cmap>>

\* sizes = self.get_cached_conc_sizes(...); cache_map.update_calc_status(...)
W_FinalUpdate ==
    /\ worker.pc = "final_update"
    /\ cmap' = update_sizes(cmap, Target, get_cached_conc_sizes(files[Target]), now)
    /\ worker' = [worker EXCEPT !.pc = "add_to_map"]
    /\ UNCHANGED <<rvars, now, files>>

\* cache_map.add_to_map(subchash, query, conc.size())
W_AddToMap ==
    /\ worker.pc = "add_to_map"
    /\ worker' = [worker EXCEPT !.pc = "done",
                                 !.sizeidx = get_cached_conc_sizes(files[Target]).concsize]
    /\ UNCHANGED <<rvars, now, cmap, files>>

\* the positions at which the call about to be made can raise
RaisingStages ==
    {"start", "mapping", "first_save", "first_save_end", "tmp_save", "rename",
     "sizes", "final_save", "final_rename", "final_update", "add_to_map"}

\* a call raises; except Exception as e: the error is logged and, if the cache
\* map was obtained, recorded in the status; __call__ returns
W_Raise ==
    /\ worker.pc \in RaisingStages
    /\ cmap' = on_exception(cmap, Target, worker.cache_map, now)
    /\ worker' = [worker EXCEPT !.pc = "done", !.exc = "err"]
    /\ UNCHANGED <<rvars, now, files>>

\* the corpus engine, which calculates asynchronously, completes
EngineStep ==
    /\ worker.pc # "idle"
    /\ worker.engine = "running"
    /\ worker' = [worker EXCEPT !.engine = "finished"]
    /\ UNCHANGED <<rvars, now, cmap, files>>

\* the steps of the worker when nothing raises
WorkerStep ==
    \/ W_OpenCorpus
    \/ W_GetMapping
    \/ W_Skip
    \/ W_Compute
    \/ W_FirstSaveBegin
    \/ W_FirstSaveEnd
    \/ W_LoopTest
    \/ W_TmpSave
    \/ W_Rename
    \/ W_Sleep
    \/ W_Update
    \/ W_FinalSave
    \/ W_FinalRename
    \/ W_FinalUpdate
    \/ W_AddToMap

WNext ==
    \/ WorkerStep
    \/ W_Raise
    \/ EngineStep

WorkerSpec == WInit /\ [][WNext]_vars

\* the worker runs on, and the engine completes its calculation
WorkerFairSpec ==
    WInit /\ [][WNext]_vars /\ WF_vars(WorkerStep) /\ WF_vars(EngineStep)

\* ------------------------------------------- CalcStatus as an object

\* A CalcStatus object on its own: it is constructed, then its methods are
\* called in any order while the clock runs.

\* the clock is advanced as long as less than MaxClock ticks have passed
\* since the object was constructed
MaxClock == 2

\* CalcStatus.__init__: a falsy created becomes int(time.time()), a falsy
\* last_upd becomes created (0 stands for None)
CalcStatus_init(created, last_upd, concsize, error, finished, t) ==
    LET c == IF created # 0 THEN created ELSE IntTime(t)
    IN  CalcStatus(None, c, IF last_upd # 0 THEN last_upd ELSE c, concsize,
                   error, finished)

\* keyword arguments of CalcStatus.update, one item per key=value
KwItems ==
    {"finished=True", "concsize=1", "error=Exception('boom')", "last_upd=1",
     "bogus=1"}

kw_key(item) ==
    CASE item = "finished=True" -> "finished"
      [] item = "concsize=1" -> "concsize"
      [] item = "error=Exception('boom')" -> "error"
      [] item = "last_upd=1" -> "last_upd"
      [] OTHER -> "bogus"

kw_val(item) ==
    CASE item = "finished=True" -> TRUE
      [] item = "concsize=1" -> 1
      [] item = "error=Exception('boom')" -> [exception |-> "boom"]
      [] item = "last_upd=1" -> 1
      [] OTHER -> 1

\* isinstance(v, BaseException)
IsException(item) == item = "error=Exception('boom')"

\* v_norm = str(v) if isinstance(v, BaseException) else v
v_norm(item) == IF IsException(item) THEN kw_val(item).exception ELSE kw_val(item)

\* hasattr(self, k), for the data attributes of the model
KnownAttrs == {"task_id", "created", "last_upd", "concsize", "error", "finished"}

\* the for loop of CalcStatus.update over kw.items(): setattr for a known
\* attribute, AssertionError at the first unknown one
RECURSIVE setattrs(_, _)
setattrs(st, kw) ==
    IF kw = << >> THEN [st |-> st, exc |-> None]
    ELSE IF kw_key(Head(kw)) \in KnownAttrs
         THEN setattrs([st EXCEPT ![kw_key(Head(kw))] = v_norm(Head(kw))], Tail(kw))
         ELSE [st |-> st, exc |-> "AssertionError"]

\* mutant: a supplied last_upd is kept
update_keep_supplied(st, kw, t) ==
    LET r == setattrs(st, kw) IN
    IF r.exc # None THEN r
    ELSE IF \E j \in 1..Len(kw) : kw_key(kw[j]) = "last_upd" THEN r
         ELSE [r EXCEPT !.st.last_upd = IntTime(t)]

\* CalcStatus.update(**kw) at clock t: the object afterwards and the
\* exception raised, if any
update(st, kw, t) ==
    LET r == setattrs(st, kw) IN
    IF r.exc # None THEN r
    ELSE [r EXCEPT !.st.last_upd = IntTime(t)]

\* the keyword arguments of one call: up to two items with different keys
KwArgs ==
    {<< >>} \cup {<<a>> : a \in KwItems}
    \cup {kw \in {<<a, b>> : a \in KwItems, b \in KwItems} :
              kw_key(kw[1]) # kw_key(kw[2])}

\* the time limits test_error is called with
TimeLimits == {TASK_TIME_LIMIT}

\* the last method call: its arguments and the clock when it was made
NoCall == [op |-> "none", kw |-> << >>, arg |-> 0, at |-> 0]

\* The object is made by the constructor from a stored record: created and
\* last_upd are absent or are clock readings of the past.
SInit ==
    /\ q = <<"q">>
    /\ minsize = 0
    /\ now = StartSec * TicksPerSec
    /\ cmap = <<NoStatus>>
    /\ files = <<"absent">>
    /\ revoked = {}
    /\ pc = "idle"
    /\ i = 0
    /\ t0 = 0
    /\ wi = 0
    /\ ans = NoAns
    /\ result = "running"
    /\ exc = None
    /\ examined = << >>
    /\ cmap0 = cmap
    /\ files0 = files
    /\ envSteps = 0
    /\ \E c \in {0, CorpMtime},
          l \in {0, StartSec - TASK_TIME_LIMIT - 100, StartSec - TASK_TIME_LIMIT},
          cs \in 0..MaxMinsize, e \in {None, "err"}, f \in BOOLEAN :
          worker = [pc |-> "status",
                    st |-> CalcStatus_init(c, l, cs, e, f, now),
                    before |-> CalcStatus_init(c, l, cs, e, f, now),
                    call |-> NoCall, err |-> None, has |-> FALSE]

\* time passes
S_Tick ==
    /\ worker.pc = "status"
    /\ now < StartSec * TicksPerSec + MaxClock
    /\ \E d \in {1, TicksPerSec} : now' = now + d
    /\ UNCHANGED <<rvars, cmap, files, worker>>

\* status.test_error(time_limit)
S_TestError ==
    /\ worker.pc = "status"
    /\ \E tl \in TimeLimits :
          worker' = [worker EXCEPT
                       !.before = worker.st,
                       !.call = [op |-> "test_error", kw |-> << >>, arg |-> tl, at |-> now],
                       !.err = test_error(worker.st, tl, now),
                       !.has = FALSE]
    /\ UNCHANGED <<rvars, now, cmap, files>>

\* status.has_some_result(minsize)
S_HasSomeResult ==
    /\ worker.pc = "status"
    /\ \E ms \in WideMinSizes :
          worker' = [worker EXCEPT
                       !.before = worker.st,
                       !.call = [op |-> "has_some_result", kw |-> << >>, arg |-> ms,
                                 at |-> now],
                       !.err = None,
                       !.has = has_some_result(worker.st, ms)]
    /\ UNCHANGED <<rvars, now, cmap, files>>

\* status.update(**kw)
S_Update ==
    /\ worker.pc = "status"
    /\ \E kw \in KwArgs :
          LET r == update(worker.st, kw, now) IN
          worker' = [worker EXCEPT
                       !.before = worker.st,
                       !.st = r.st,
                       !.call = [op |-> "update", kw |-> kw, arg |-> 0, at |-> now],
                       !.err = r.exc,
                       !.has = FALSE]
    /\ UNCHANGED <<rvars, now, cmap, files>>

SNext ==
    \/ S_Tick
    \/ S_TestError
    \/ S_HasSomeResult
    \/ S_Update

StatusSpec == SInit /\ [][SNext]_vars

\* ------------------------------- the synchronous calculation worker

\* ConcSyncCalculation.__call__(subchash, query, samplesize): the worker
\* calls find_cached_conc_base(corp, subchash, query, minsize=0), whose steps
\* are those of the resolver above, and then works on the cache map and the
\* cache files of the prefixes of q. No other process touches them meanwhile.

\* longest query sequence the synchronous worker is called with
MaxSyncLen == 3

\* operations following the initial query: shuffle, and two of the
\* operations that cannot be saved
SyncOps == {"f", "g", "a"}

RECURSIVE SyncSeqsOfLen(_)
SyncSeqsOfLen(l) ==
    IF l = 0 THEN {<< >>}
    ELSE {Append(s, o) : s \in SyncSeqsOfLen(l - 1), o \in SyncOps}

SyncQueries ==
    UNION {{<<"q">> \o s : s \in SyncSeqsOfLen(l)} : l \in 0..(MaxSyncLen - 1)}

\* command = query[act][0], the first character of the operation
command(op) ==
    CASE op = "x-al" -> "x"
      [] OTHER -> op

\* mutant: every operation can be saved
is_volatile_never(cmd) == FALSE

\* command in 'gae'
is_volatile(cmd) == cmd \in {"g", "a", "e"}

\* conc.size(): the size the engine reports for a concordance, which stands
\* here for any value that tells the concordances of different steps apart
conc_size(ops) == Len(ops)

\* the operations (positions in q) a concordance returned by the resolver
\* is the result of
base_ops(a) == IF a.conc.kind = "PyConc" THEN [j \in 1..a.idx |-> j] ELSE << >>

\* mutant: the failure is recorded for the failed step alone
mark_calc_states_err_one(m, l, from_idx, t) ==
    [j \in DOMAIN m |->
        IF j = from_idx + 1 THEN update_error(stored_or_new(m[j], t), t) ELSE m[j]]

\* _mark_calc_states_err(subchash, query, from_idx, err), l = len(query):
\* update_calc_status(subchash, query[:i + 1], error=err, finished=True) for
\* i in range(from_idx, len(query))
mark_calc_states_err(m, l, from_idx, t) ==
    [j \in DOMAIN m |->
        IF j >= from_idx + 1 /\ j <= l
        THEN update_error(stored_or_new(m[j], t), t) ELSE m[j]]

\* mutant: the status keeps its finished flag
update_done_no_finished(m, k, size, t) ==
    [m EXCEPT ![k] = [stored_or_new(@, t) EXCEPT
                        !.concsize = size, !.last_upd = IntTime(t)]]

\* cache_map.update_calc_status(subchash, query[:k], finished=True,
\* concsize=conc.size())
update_done(m, k, size, t) ==
    [m EXCEPT ![k] = [stored_or_new(@, t) EXCEPT
                        !.finished = TRUE, !.concsize = size,
                        !.last_upd = IntTime(t)]]

\* calc_from += 1
advance(calc_from) == calc_from + 1

\* The entries a prefix can have when the worker is called: none; one
\* registered by the dispatcher and not finished (without a file, or with a
\* partial file another worker is writing); a finished one (the file complete
\* or unreadable); a failed one.
SyncEntries(k) ==
    {[st |-> NoStatus, file |-> "absent"],
     [st |-> CalcStatus(TaskId(k), CorpMtime, StartSec, 0, None, FALSE), file |-> "absent"],
     [st |-> CalcStatus(TaskId(k), CorpMtime, StartSec, 0, None, FALSE), file |-> "partial"],
     [st |-> CalcStatus(None, CorpMtime, StartSec, 2, None, TRUE), file |-> "complete"],
     [st |-> CalcStatus(None, CorpMtime, StartSec, 2, None, TRUE), file |-> "corrupt"],
     [st |-> CalcStatus(TaskId(k), CorpMtime, StartSec, 0, "err", TRUE), file |-> "absent"]}

\* the worker at the call of find_cached_conc_base
YStart ==
    [pc |-> "resolve", calc_from |-> 0, act |-> 0, ops |-> << >>,
     first |-> FALSE, executed |-> << >>, exc |-> None, failed_at |-> 0]

YInit ==
    /\ q \in SyncQueries
    /\ minsize = 0
    /\ now = StartSec * TicksPerSec
    /\ \E e \in [1..Len(q) -> UNION {SyncEntries(k) : k \in 1..Len(q)}] :
          /\ \A k \in 1..Len(q) : e[k] \in SyncEntries(k)
          /\ cmap = [k \in 1..Len(q) |-> e[k].st]
          /\ files = [k \in 1..Len(q) |-> e[k].file]
    /\ revoked = {}
    /\ pc = "start"
    /\ i = 0
    /\ t0 = 0
    /\ wi = 0
    /\ ans = NoAns
    /\ result = "running"
    /\ exc = None
    /\ examined = << >>
    /\ cmap0 = cmap
    /\ files0 = files
    /\ envSteps = 0
    /\ worker = YStart

\* the worker ends with the exception e of step from_idx: the error is
\* logged, _mark_calc_states_err is called and __call__ returns
YFail(e, from_idx) ==
    /\ cmap' = mark_calc_states_err(cmap, Len(q), from_idx, now)
    /\ worker' = [worker EXCEPT !.pc = "done", !.exc = e, !.failed_at = from_idx]

\* find_cached_conc_base has ended: by an exception (except Exception as ex),
\* or with calc_from, conc = ans
Y_Resolved ==
    /\ worker.pc = "resolve"
    /\ pc = "done"
    /\ IF result = "raised"
       THEN YFail(exc, 0)
       ELSE /\ worker' = [worker EXCEPT
                            !.pc = IF ans.conc.kind = "EmptyConc"
                                   THEN "first_compute" ELSE "loop",
                            !.calc_from = ans.idx,
                            !.act = ans.idx,
                            !.ops = base_ops(ans)]
            /\ UNCHANGED cmap
    /\ UNCHANGED <<rvars, now, files>>

\* conc = self.compute_conc(self.corpus_obj, query, samplesize); conc.sync()
Y_FirstCompute ==
    /\ worker.pc = "first_compute"
    /\ worker' = [worker EXCEPT !.pc = "first_save", !.ops = <<1>>, !.first = TRUE,
                                 !.executed = Append(@, 1)]
    /\ UNCHANGED <<rvars, now, cmap, files>>

\* conc.save(path): the whole concordance is written; without a path (there
\* is no entry for the prefix) the call raises
Y_SaveTo(k, from_idx, next) ==
    IF cache_file_path(cmap, k) = NoPath
    THEN /\ YFail("TypeError", from_idx)
         /\ UNCHANGED files
    ELSE /\ files' = [files EXCEPT ![cache_file_path(cmap, k)] = "complete"]
         /\ worker' = [worker EXCEPT !.pc = next]
         /\ UNCHANGED cmap

\* conc.save(self.cache_map.cache_file_path(subchash, query[:1]))
Y_FirstSave ==
    /\ worker.pc = "first_save"
    /\ Y_SaveTo(1, 0, "first_update")
    /\ UNCHANGED <<rvars, now>>

\* update_calc_status(subchash, query[:1], finished=True,
\* concsize=conc.size()); calc_from += 1
Y_FirstUpdate ==
    /\ worker.pc = "first_update"
    /\ cmap' = update_done(cmap, 1, conc_size(worker.ops), now)
    /\ worker' = [worker EXCEPT !.pc = "loop",
                                 !.calc_from = advance(@),
                                 !.act = advance(worker.calc_from)]
    /\ UNCHANGED <<rvars, now, files>>

\* for act in range(calc_from, len(query)); act counts from 0, so the
\* operation of the step is q[act + 1] and its prefix is q[:act + 1]
Y_LoopTest ==
    /\ worker.pc = "loop"
    /\ worker' = [worker EXCEPT !.pc = IF worker.act < Len(q) THEN "exec" ELSE "done"]
    /\ UNCHANGED <<rvars, now, cmap, files>>

\* conc.exec_command(command, args)
Y_Exec ==
    /\ worker.pc = "exec"
    /\ worker' = [worker EXCEPT !.pc = "check", !.ops = Append(@, worker.act + 1),
                                 !.executed = Append(@, worker.act + 1)]
    /\ UNCHANGED <<rvars, now, cmap, files>>

\* if command in 'gae': raise NotImplementedError
Y_Volatile ==
    /\ worker.pc = "check"
    /\ is_volatile(command(q[worker.act + 1]))
    /\ YFail("NotImplementedError", worker.act)
    /\ UNCHANGED <<rvars, now, files>>

\* cachefile = cache_file_path(subchash, query[:act + 1]); conc.save(cachefile)
Y_Save ==
    /\ worker.pc = "check"
    /\ ~is_volatile(command(q[worker.act + 1]))
    /\ Y_SaveTo(worker.act + 1, worker.act, "update")
    /\ UNCHANGED <<rvars, now>>

\* update_calc_status(subchash, query[:act + 1], finished=True,
\* concsize=conc.size()), and on to the next act
Y_Update ==
    /\ worker.pc = "update"
    /\ cmap' = update_done(cmap, worker.act + 1, conc_size(worker.ops), now)
    /\ worker' = [worker EXCEPT !.pc = "loop", !.act = @ + 1]
    /\ UNCHANGED <<rvars, now, files>>

\* the corpus engine or the cache map raises in the call about to be made
Y_Raise ==
    /\ worker.pc \in {"first_compute", "first_save", "first_update", "exec", "update"}
    /\ YFail("Exception",
             IF worker.pc \in {"first_compute", "first_save", "first_update"}
             THEN 0 ELSE worker.act)
    /\ UNCHANGED <<rvars, now, files>>

YNext ==
    \/ Start
    \/ Examine
    \/ SleepPoll
    \/ Return
    \/ Y_Resolved
    \/ Y_FirstCompute
    \/ Y_FirstSave
    \/ Y_FirstUpdate
    \/ Y_LoopTest
    \/ Y_Exec
    \/ Y_Volatile
    \/ Y_Save
    \/ Y_Update
    \/ Y_Raise

SyncSpec == YInit /\ [][YNext]_vars

\* ------------------------------------- _contains_shuffle_seq on its own

\* longest sequence _contains_shuffle_seq is applied to
MaxShuffleLen == 5

\* the items of a sequence: the shuffle operation and any other one
ShuffleItems == {"f", "x"}

RECURSIVE ShuffleSeqsOfLen(_)
ShuffleSeqsOfLen(l) ==
    IF l = 0 THEN {<< >>}
    ELSE {Append(s, o) : s \in ShuffleSeqsOfLen(l - 1), o \in ShuffleItems}

\* every sequence over the items up to the bound, the empty one included, and
\* the sequence of the docstring
ShuffleInputs ==
    UNION {ShuffleSeqsOfLen(l) : l \in 0..MaxShuffleLen}
    \cup {<<"foo", "bar", "f", "f", "something">>, <<"q", "f", "x", "f">>}

FInit ==
    /\ q \in ShuffleInputs
    /\ minsize = 0
    /\ now = StartSec * TicksPerSec
    /\ cmap = <<NoStatus>>
    /\ files = <<"absent">>
    /\ revoked = {}
    /\ pc = "idle"
    /\ i = 0
    /\ t0 = 0
    /\ wi = 0
    /\ ans = NoAns
    /\ result = "running"
    /\ exc = None
    /\ examined = << >>
    /\ cmap0 = cmap
    /\ files0 = files
    /\ envSteps = 0
    /\ worker = [pc |-> "shuffle", called |-> FALSE, ret |-> FALSE]

\* _contains_shuffle_seq(q)
F_Call ==
    /\ worker.pc = "shuffle"
    /\ ~worker.called
    /\ worker' = [worker EXCEPT !.called = TRUE, !.ret = contains_shuffle_seq(q)]
    /\ UNCHANGED <<rvars, now, cmap, files>>

ShuffleSpec == FInit /\ [][F_Call]_vars

\* ------------------------------- a cancelled worker that keeps running

\* Three processes on the one key of the query q. An earlier worker was
\* cancelled (cancel_async_task deleted the entry and the cache file;
\* app.control.revoke does nothing, so the worker runs on): it has saved its
\* whole result to the .tmp file and is about to rename it. The calculation
\* was then started anew: a fresh unfinished record is registered and a
\* second worker is called for it, with either value of already_running. A
\* later request runs the resolver. The clock is advanced by whichever
\* process sleeps.

\* the cancelled worker at os.rename(tmp_cachefile, cachefile) of line 252
RInit ==
    /\ q = <<"q">>
    /\ minsize \in MinSizes
    /\ now = StartSec * TicksPerSec
    /\ cmap = <<CalcStatus(TaskId(1), CorpMtime, StartSec, 0, None, FALSE)>>
    /\ files = <<"absent">>
    /\ revoked = {TaskId(1)}
    /\ pc = "start"
    /\ i = 0
    /\ t0 = 0
    /\ wi = 0
    /\ ans = NoAns
    /\ result = "running"
    /\ exc = None
    /\ examined = << >>
    /\ cmap0 = cmap
    /\ files0 = files
    /\ envSteps = 0
    /\ \E r \in BOOLEAN :
        worker = [pc |-> "start", already_running |-> r, cache_map |-> FALSE,
                  engine |-> "none", sleeptime |-> 0, iter |-> 0,
                  tmp |-> "absent", sizeidx |-> NoSize, exc |-> None,
                  late |-> "final_rename"]

\* the cancelled worker: os.rename(tmp_cachefile, initial_args['cachefile'])
\* of its whole result. A rename while the second worker has the cache file
\* open for its first save would leave that save in the unlinked file; the
\* step is taken outside that window only.
Late_FinalRename ==
    /\ worker.pc # "idle"
    /\ files[Target] # "writing"
    /\ worker.late = "final_rename"
    /\ files' = [files EXCEPT ![Target] = "complete"]
    /\ worker' = [worker EXCEPT !.late = "final_update"]
    /\ UNCHANGED <<rvars, now, cmap>>

\* the cancelled worker: sizes = self.get_cached_conc_sizes(...);
\* cache_map.update_calc_status(...)
Late_FinalUpdate ==
    /\ worker.pc # "idle"
    /\ worker.late = "final_update"
    /\ cmap' = update_sizes(cmap, Target, get_cached_conc_sizes(files[Target]), now)
    /\ worker' = [worker EXCEPT !.late = "done"]
    /\ UNCHANGED <<rvars, now, files>>

RaceNext ==
    \/ ResolverStep
    \/ WNext
    \/ Late_FinalRename
    \/ Late_FinalUpdate

RaceSpec == RInit /\ [][RaceNext]_vars

\* ------------------------------------ the cache map and its storage

\* The cache map with its backing storage: ready tells whether the
\* directory of the corpus cache files exists. refresh_map tests that and
\* creates what is missing; the entries are left as they are.

\* the cache map, its storage and the cache files as one value
Backing(ready, m, f) == [ready |-> ready, cmap |-> m, files |-> f]

\* mutant: a refresh of a storage that is ready tears it down
refresh_storage_toggle(B) ==
    [B EXCEPT !.ready = ~B.ready, !.cmap = refresh_map(B.cmap)]

\* AbstractConcCache.refresh_map with its storage
refresh_storage(B) ==
    [B EXCEPT !.ready = TRUE, !.cmap = refresh_map(B.cmap)]

\* what the other operations of the cache map let a caller observe: the
\* statuses, the paths and the storage they point into
Observable(B) ==
    [ready |-> B.ready,
     status |-> [k \in DOMAIN B.cmap |-> get_calc_status(B.cmap, k)],
     path |-> [k \in DOMAIN B.cmap |-> cache_file_path(B.cmap, k)],
     files |-> B.files]

\* the state of the cache map when a request arrives: any entries, the
\* storage in place or not (then without any cache file)
MapInit ==
    /\ q \in TermQueries
    /\ minsize = 0
    /\ now = StartSec * TicksPerSec
    /\ \E e \in [1..Len(q) -> UNION {InitEntries(k, Len(q)) : k \in 1..Len(q)}],
          r \in BOOLEAN :
          /\ \A k \in 1..Len(q) : e[k] \in InitEntries(k, Len(q))
          /\ cmap = [k \in 1..Len(q) |-> e[k].st]
          /\ files = [k \in 1..Len(q) |-> IF r THEN e[k].file ELSE "absent"]
          /\ worker = [pc |-> "map", ready |-> r, refreshes |-> 0,
                       once |-> Observable(Backing(r, cmap, files))]
    /\ revoked = {}
    /\ pc = "idle"
    /\ i = 0
    /\ t0 = 0
    /\ wi = 0
    /\ ans = NoAns
    /\ result = "running"
    /\ exc = None
    /\ examined = << >>
    /\ cmap0 = cmap
    /\ files0 = files
    /\ envSteps = 0

\* cache_map.refresh_map(); refreshes counts the calls made in succession and
\* once is what could be observed after the call before
M_Refresh ==
    /\ worker.pc = "map"
    /\ worker.refreshes < 2
    /\ LET B == refresh_storage(Backing(worker.ready, cmap, files)) IN
          /\ cmap' = B.cmap
          /\ files' = B.files
          /\ worker' = [worker EXCEPT
                          !.ready = B.ready,
                          !.refreshes = @ + 1,
                          !.once = Observable(Backing(worker.ready, cmap, files))]
    /\ UNCHANGED <<rvars, now>>

\* cache_map.del_entry(subchash, q[:k])
M_DelEntry(k) ==
    /\ worker.pc = "map"
    /\ cmap[k].exists
    /\ cmap' = del_entry(cmap, k)
    /\ worker' = [worker EXCEPT !.refreshes = 0]
    /\ UNCHANGED <<rvars, now, files>>

\* the directory of the cache files is removed from outside
M_RemoveStorage ==
    /\ worker.pc = "map"
    /\ worker.ready
    /\ files' = [k \in DOMAIN files |-> "absent"]
    /\ worker' = [worker EXCEPT !.ready = FALSE, !.refreshes = 0]
    /\ UNCHANGED <<rvars, now, cmap>>

MapNext ==
    \/ M_Refresh
    \/ \E k \in 1..Len(q) : M_DelEntry(k)
    \/ M_RemoveStorage

MapSpec == MapInit /\ [][MapNext]_vars

\* ------------------------------------------------ vocabulary of the claims

n == Len(q)

Done == pc = "done"
Returned == result = "returned"

\* the for loop ran to its end without a break
Exhausted == pc = "done" /\ result = "returned" /\ i = 0

\* no other process acted during the call
Quiet == envSteps = 0

\* q has two directly adjacent shuffle operations
HasAdjacentShuffles(q_ops) ==
    \E j \in 1..(Len(q_ops) - 1) : q_ops[j] = "f" /\ q_ops[j + 1] = "f"

NoShuffle(q_ops) == \A j \in 1..Len(q_ops) : q_ops[j] # "f"

\* <<a, a - 1, ..., 1>>
Descending(a) == [j \in 1..a |-> a - j + 1]

IsPrefixOf(s, t) == Len(s) <= Len(t) /\ \A j \in 1..Len(s) : s[j] = t[j]

Max(S) == CHOOSE x \in S : \A y \in S : y <= x

\* at the call, q[:k] had a finished, error-free entry whose cache file exists
\* and can be loaded, and which (for the full query) is not older than the
\* corpus
GoodAtCall(k) ==
    /\ cmap0[k].exists /\ cmap0[k].finished /\ cmap0[k].error = None
    /\ files0[k] = "complete"
    /\ k = n => cmap0[k].created >= CorpMtime

\* the answer (k, concordance loaded from the cache file q[:k] had at the call)
Loaded(k) ==
    [idx |-> k,
     conc |-> [kind |-> "PyConc", mcorp |-> main_corp(q, k), path |-> k,
               content |-> files0[k]]]

\* the call has not looked at q[:k] nor changed its entry, file or task
Untouched(k) ==
    /\ cmap[k] = cmap0[k]
    /\ files[k] = files0[k]
    /\ \A e \in 1..Len(examined) : examined[e] # k
    /\ TaskId(k) \notin revoked

\* ------------------------------------------------------------ the claims

Candidates(q_ops) ==
    IF HasAdjacentShuffles(q_ops) THEN <<1>> ELSE Descending(Len(q_ops))

CandidateSet == {Candidates(q)[e] : e \in 1..Len(Candidates(q))}

\* the candidates that had a finished, loadable entry at the call
GoodCands == {k \in CandidateSet : GoodAtCall(k)}

Skipped(k) ==
    \/ ~cmap0[k].exists
    \/ /\ cmap0[k].error = None
       /\ k = n => cmap0[k].created >= CorpMtime
       /\ \/ cmap0[k].finished /\ files0[k] \in {"absent", "corrupt"}
          \/ /\ ~cmap0[k].finished /\ files0[k] = "absent"
             /\ now - cmap0[k].last_upd * TicksPerSec <= TASK_TIME_LIMIT * TicksPerSec

\* the entry of the full query was failed or stale at the call, so that the
\* resolver evicts it before the search
EvictedAtCall ==
    cmap0[n].exists /\ (cmap0[n].error # None \/ cmap0[n].created < CorpMtime)

C4_EmptyMeansZero ==
    (Done /\ Returned /\ ans.conc.kind = "EmptyConc") => ans.idx = 0

\* C5: for q without shuffle operations whose only registered entry is a
\* finished (error-free, loadable) one at q[:1], find_cached_conc_base(q,
\* minsize=0) passes over every longer prefix and returns (1, concordance of
\* q[:1]).
C5_FirstPrefixOnly ==
    (/\ Done /\ minsize = 0 /\ NoShuffle(q)
     /\ GoodAtCall(1) /\ \A k \in 2..n : ~cmap0[k].exists) =>
        /\ Returned /\ ans = Loaded(1)
        /\ examined = Descending(n)

C5_Witness ==
    /\ Done /\ minsize = 0 /\ NoShuffle(q) /\ n = 3
    /\ GoodAtCall(1) /\ \A k \in 2..n : ~cmap0[k].exists
    /\ ans.idx = 1 /\ ans.conc.kind = "PyConc"

\* C6: if the status of the full query has error set when the resolver
\* starts, the entry is evicted before any candidate is examined, and
\* get_calc_status(subchash, q) is null from then on.
C6_ErrorEvicted ==
    (pc # "start" /\ cmap0[n].exists /\ cmap0[n].error # None) =>
        ~get_calc_status(cmap, n).exists

C6_Witness ==
    /\ pc = "loop" /\ examined = << >> /\ n >= 2
    /\ cmap0[n].exists /\ cmap0[n].error # None
    /\ ~get_calc_status(cmap, n).exists

\* C7: right after the first step of the resolver, an error-free full-query
\* status created before the corpus modification time has been fully evicted
\* (every prefix entry of the base query is gone); one created at or after
\* it has left the cache map as it was.
C7_StaleEvictedOnly ==
    (/\ pc = "loop" /\ examined = << >>
     /\ cmap0[n].exists /\ cmap0[n].error = None) =>
        IF cmap0[n].created < CorpMtime
        THEN \A k \in 1..n : ~cmap[k].exists
        ELSE cmap = cmap0

C7_Witness ==
    /\ pc = "loop" /\ examined = << >> /\ n >= 2
    /\ cmap0[n].exists /\ cmap0[n].error = None /\ cmap0[n].finished
    /\ cmap0[n].created < CorpMtime
    /\ cmap0[1].exists /\ ~cmap[1].exists

\* C8: a status exception raised while a candidate prefix is evaluated never
\* leaves find_cached_conc_base: the call always ends by returning.
C8_Contained ==
    Done => (result = "returned" /\ exc = None)

\* the registered candidates at the call, the longest and the next one
Registered == {k \in CandidateSet : cmap0[k].exists}
Longest == Max(Registered)
NextLongest == Max(Registered \ {Longest})

\* the status of q[:k] at the call fails validation at the first or second
\* poll: error set, or unfinished and not updated for TASK_TIME_LIMIT seconds
StatusFailsAtCall(k) ==
    \/ cmap0[k].error # None
    \/ /\ ~cmap0[k].finished
       /\ StartSec - cmap0[k].last_upd >= TASK_TIME_LIMIT

\* q[:k] was finished and error-free at the call, but its cache file is
\* missing or cannot be loaded
LoadFailsAtCall(k) ==
    /\ cmap0[k].finished /\ cmap0[k].error = None
    /\ files0[k] \in {"absent", "corrupt"}

TimedOutStep ==
    /\ pc = "sleep" /\ now' # now /\ pc' # "sleep"
    /\ cmap[i].exists /\ ~cmap[i].finished
    /\ test_error(cmap[i], TASK_TIME_LIMIT, now') = None
    /\ ~has_some_result(cmap[i], minsize)

\* C10: when the wait on q[:i] times out without the entry having reached
\* minsize, then with minsize # 0 the resolver revokes the task, deletes the
\* entry and the file and goes on to the next shorter prefix, and with
\* minsize = 0 it goes on without cancelling or deleting.
C10_TimeoutCancels ==
    [][TimedOutStep =>
        /\ pc' = "loop" /\ i' = i - 1
        /\ IF minsize # 0
           THEN /\ ~cmap'[i].exists
                /\ files'[i] = "absent"
                /\ cmap[i].task_id # None => cmap[i].task_id \in revoked'
           ELSE cmap' = cmap /\ files' = files /\ revoked' = revoked]_vars

\* a step in which _check_result is called from wait_for_conc: the first
\* check, made without a sleep, or a check after a sleep
FirstPoll == pc = "loop" /\ i >= 1 /\ cmap[i].exists /\ examined' # examined
LaterPoll == pc = "sleep" /\ now' # now
PollStep == FirstPoll \/ LaterPoll

\* the status read by the check of this step passes its validation
PolledOk == cmap[i].exists /\ test_error(cmap[i], TASK_TIME_LIMIT, now') = None

\* t1 - t0 at the check of this step, in ticks
Elapsed == IF pc = "sleep" THEN now' - t0 ELSE 0

\* C11: after a check that passes validation wait_for_conc goes on polling
\* exactly when the status does not yet satisfy has_some_result(minsize) and
\* the time budget has not elapsed; it stops as soon as the entry has at
\* least minsize rows.
C11_StopsOnResult ==
    [][(PollStep /\ PolledOk) =>
         (pc' = "sleep" <=>
            /\ ~has_some_result(cmap[i], minsize)
            /\ Elapsed < time_limit(minsize) * TicksPerSec)]_vars

\* C12 as stated: the wait on an unfinished entry that passes validation
\* goes on exactly while less than the budget has elapsed, the budget being
\* 30 s exactly when minsize = -1 and 5 s for every other minsize.
C12_Original ==
    [][(PollStep /\ PolledOk /\ ~cmap[i].finished) =>
         (pc' = "sleep" <=>
            Elapsed < (IF minsize = -1 THEN WAIT_LIMIT_FULL
                                       ELSE WAIT_LIMIT_PARTIAL) * TicksPerSec)]_vars

\* C12 amended: the budget is 30 s for every negative minsize (not only -1)
\* and 5 s for every minsize >= 0.
C12_Budget ==
    [][(PollStep /\ PolledOk /\ ~cmap[i].finished) =>
         (pc' = "sleep" <=>
            Elapsed < (IF minsize < 0 THEN WAIT_LIMIT_FULL
                                      ELSE WAIT_LIMIT_PARTIAL) * TicksPerSec)]_vars

\* a call with minsize below -1 that waited out the whole long budget
C12_Witness ==
    /\ Done /\ minsize < -1 /\ Quiet
    /\ ~cmap0[1].finished
    /\ now - StartSec * TicksPerSec >= WAIT_LIMIT_FULL * TicksPerSec

\* C13: the first status check of wait_for_conc is made without a sleep,
\* and the k-th sleep between two checks lasts k * 0.1 s (k ticks): the poll
\* interval grows by 0.1 s after every poll.
C13_LinearBackoff ==
    [][/\ FirstPoll => (now' = now /\ (pc' = "sleep" => wi' = 1))
       /\ (pc = "sleep" /\ wi' # wi) =>
             /\ now' - now = wi
             /\ pc' = "sleep" => wi' = wi + 1]_vars

\* after the third sleep 0.1 + 0.2 + 0.3 s have passed since the first check
C13_Witness ==
    pc = "sleep" /\ wi = 4 /\ now - t0 = 6

\* a step in which wait_for_conc leaves its poll loop after a check that
\* passed validation
WaitEnds == PollStep /\ PolledOk /\ pc' # "sleep"

\* C14: when wait_for_conc leaves its loop and the cache file of q[:i] does
\* not exist, it returns not-ready (the resolver goes on to the next shorter
\* prefix), having deleted the entry of exactly q[:i] if the status was
\* finished and nothing if it was not (seen with minsize = 0, where the
\* resolver adds no cancellation of its own); when the file exists it returns
\* ready, and the resolver uses the entry.
C14_MissingFile ==
    [][WaitEnds =>
         IF ~isfile(files, cache_file_path(cmap, i))
         THEN /\ pc' = "loop" /\ i' = i - 1 /\ ans' = ans
              /\ \A k \in 1..n : k # i => cmap'[k] = cmap[k]
              /\ cmap[i].finished => ~cmap'[i].exists
              /\ minsize = 0 =>
                    /\ files' = files /\ revoked' = revoked
                    /\ ~cmap[i].finished => cmap' = cmap
         ELSE Loadable(files[i]) =>
                 (pc' = "done" /\ result' = "returned" /\ ans'.idx = i)]_vars

\* the full query had a finished entry without a file: its entry is gone, the
\* entry of q[:1] is as it was, and the search goes on
C14_Witness ==
    /\ n = 2 /\ minsize = 0 /\ pc = "loop" /\ examined = <<2>>
    /\ cmap0[2].exists /\ cmap0[2].finished /\ files0[2] = "absent"
    /\ ~cmap[2].exists
    /\ cmap0[1].exists /\ cmap[1] = cmap0[1] /\ files = files0

\* the status read by the check of this step is missing, has error set, or is
\* unfinished and was last updated more than TASK_TIME_LIMIT seconds ago
StatusBad ==
    \/ ~cmap[i].exists
    \/ cmap[i].error # None
    \/ /\ ~cmap[i].finished
       /\ now' - cmap[i].last_upd * TicksPerSec > TASK_TIME_LIMIT * TicksPerSec

\* C15: a check of wait_for_conc that finds the status missing, failed or
\* stalled ends the wait at once with a status exception raised to the
\* caller, whatever is left of the time budget: find_cached_conc_base either
\* handles it in its except clause (missing status) and goes on to the next
\* prefix, or ends with the exception (failed or stalled status).
C15_AbortsOnBadStatus ==
    [][(PollStep /\ StatusBad) =>
         /\ pc' # "sleep"
         /\ IF ~cmap[i].exists
            THEN pc' = "loop" /\ i' = i - 1
            ELSE pc' = "done" /\ result' = "raised"
                 /\ exc' = "CalcStatusException"]_vars

\* a calculation found stalled at the second check, 0.1 s into the wait
C15_Witness ==
    /\ n = 1 /\ Done /\ result = "raised" /\ Quiet
    /\ cmap0[1].error = None /\ ~cmap0[1].finished
    /\ now > StartSec * TicksPerSec
    /\ now - StartSec * TicksPerSec < WAIT_LIMIT_PARTIAL * TicksPerSec

\* a step of the resolver in which cancel_async_task(cache_map, subchash,
\* q[:i]) is called and returns: the loop goes on after a registered prefix,
\* except on the not-ready path with minsize = 0
CancelStep ==
    /\ PollStep /\ pc' = "loop"
    /\ ~(/\ minsize = 0 /\ PolledOk
         /\ ~isfile(files, cache_file_path(cmap, i)))

C17_AtomicReplace ==
    [][files'[Target] # files[Target] =>
         /\ worker.pc \in {"rename", "final_rename"}
         /\ worker.tmp \in {"partial", "complete"}
         /\ files'[Target] = worker.tmp]_vars

\* C18: a worker called with already_running set calculates nothing and
\* leaves the cache file, the status and the size index of the query as
\* they were.
C18_AlreadyRunningNoOp ==
    worker.already_running =>
        /\ worker.engine = "none"
        /\ files = files0
        /\ cmap = cmap0
        /\ worker.sizeidx = NoSize

C18_Witness ==
    /\ worker.already_running /\ worker.pc = "done" /\ worker.exc = None
    /\ worker.cache_map /\ files0[Target] = "partial" /\ files = files0

\* the complete result is in the cache file and the status says finished,
\* without error, with the final sizes, which are also in the size index
Published ==
    /\ files[Target] = "complete"
    /\ cmap[Target].exists /\ cmap[Target].finished /\ cmap[Target].error = None
    /\ cmap[Target].concsize = get_cached_conc_sizes("complete").concsize
    /\ worker.sizeidx = get_cached_conc_sizes("complete").concsize

\* C19: a worker that is started without already_running, whose engine
\* completes, eventually terminates, and if nothing raised it has by then
\* saved the complete result and published finished = true, no error and
\* the final sizes.
C19_EventuallyPublished ==
    (worker.pc = "start" /\ ~worker.already_running)
        ~> (worker.pc = "done" /\ (worker.exc = None => Published))

C19_Witness ==
    /\ worker.pc = "done" /\ ~worker.already_running /\ worker.exc = None
    /\ worker.iter = MaxIter /\ Published

\* C20 as stated: if an exception occurs at any stage of the worker, the
\* opening of the corpus and the obtaining of the cache map included, the
\* worker ends with the status finished = true and error set.
C20_Original ==
    (worker.pc = "done" /\ worker.exc # None) =>
        (cmap[Target].finished /\ cmap[Target].error # None)

\* C20 amended: an exception raised after the cache map was obtained ends
\* with the status finished = true and error set; one raised before (while
\* the corpus is opened or the cache map obtained) is only logged and the
\* status stays as it was. In both cases __call__ returns.
C20_ErrorRecorded ==
    (worker.pc = "done" /\ worker.exc # None) =>
        IF worker.cache_map
        THEN cmap[Target].finished /\ cmap[Target].error # None
        ELSE cmap = cmap0

\* the opening of the corpus raised: the status is still unfinished
C20_Witness ==
    /\ worker.pc = "done" /\ worker.exc # None /\ ~worker.cache_map
    /\ ~cmap[Target].finished /\ cmap[Target].error = None

\* ------------------------------------------------ CalcStatus (C26 - C30)

\* the last method call on the status object
Called(op) == worker.pc = "status" /\ worker.call.op = op

\* now - last_upd > time_limit at the clock of the last call
StalledAtCall ==
    worker.call.at > (worker.before.last_upd + worker.call.arg) * TicksPerSec

\* C26: test_error(time_limit) returns a failure if and only if error is set,
\* or the status is not finished and now - last_upd > time_limit; the call
\* changes no field of the status.
C26_TestError ==
    Called("test_error") =>
        /\ (worker.err # None) <=>
              (worker.before.error # None
               \/ (~worker.before.finished /\ StalledAtCall))
        /\ worker.st = worker.before

\* an unfinished, error-free status whose last_upd is 400 s old fails
\* test_error(300)
C26_Witness ==
    /\ Called("test_error") /\ worker.call.arg = TASK_TIME_LIMIT
    /\ worker.before.error = None /\ ~worker.before.finished
    /\ worker.call.at = (worker.before.last_upd + TASK_TIME_LIMIT + 100) * TicksPerSec
    /\ worker.err = "CalcStatusException"

\* C27: for every minsize m >= 1, has_some_result(m) is true if and only if
\* concsize >= m, whether the status is finished or not.
C27_RowsSuffice ==
    (Called("has_some_result") /\ worker.call.arg >= 1) =>
        (worker.has <=> worker.before.concsize >= worker.call.arg)

C27_Witness ==
    /\ Called("has_some_result") /\ worker.call.arg >= 1
    /\ ~worker.before.finished
    /\ worker.before.concsize >= worker.call.arg
    /\ worker.has

\* C28: has_some_result(-1) is true if and only if the status is finished,
\* whatever its concsize.
C28_MinusOneFinishedOnly ==
    (Called("has_some_result") /\ worker.call.arg = -1) =>
        (worker.has <=> worker.before.finished)

\* C29: has_some_result(0) is true for every status, also for one with
\* concsize 0 that is not finished.
C29_ZeroAcceptsAny ==
    (Called("has_some_result") /\ worker.call.arg = 0) => worker.has

\* the update call supplied the item
Supplied(item) == \E j \in 1..Len(worker.call.kw) : worker.call.kw[j] = item

\* C30: each successful update sets the supplied fields and leaves last_upd
\* at a value not below its value before the call, also when last_upd itself
\* was supplied.
C30_LastUpdMonotone ==
    (Called("update") /\ worker.err = None) =>
        /\ worker.st.last_upd >= worker.before.last_upd
        /\ Supplied("finished=True") => worker.st.finished
        /\ Supplied("concsize=1") => worker.st.concsize = 1
        /\ Supplied("error=Exception('boom')") => worker.st.error = "boom"

\* update(last_upd=1, finished=True) on a status last updated later than 1
C30_Witness ==
    /\ Called("update") /\ worker.err = None
    /\ Supplied("last_upd=1") /\ Supplied("finished=True")
    /\ worker.before.last_upd > 1 /\ ~worker.before.finished
    /\ worker.st.finished
    /\ worker.st.last_upd > worker.before.last_upd

\* ------------------------- the synchronous worker (C21 - C25)

\* the worker has returned
YDone == worker.pc = "done"

\* the resolver handed the worker an empty base
EmptyBase == result = "returned" /\ ans.conc.kind = "EmptyConc"

\* the first block (lines 297-303) has just been completed
FirstBlockDone ==
    /\ worker.pc = "loop" /\ worker.first /\ worker.executed = <<1>>

\* C21: handed an empty base, the worker computes the first operation,
\* persists it as the cache entry of q[:1], marks q[:1] finished with the
\* size the engine reports, and sets the index to exactly 1, so the remaining
\* steps start at operation index 1.
C21_EmptyBaseStartsAtOne ==
    (EmptyBase /\ FirstBlockDone) =>
        /\ files[1] = "complete"
        /\ cmap[1].exists /\ cmap[1].finished
        /\ cmap[1].concsize = conc_size(<<1>>)
        /\ worker.calc_from = 1
        /\ worker.act = 1

\* the loop steps (values of act) this run has completed
CompletedSteps ==
    IF worker.pc \in {"loop", "exec", "check", "update", "done"}
    THEN worker.calc_from .. (worker.act - 1)
    ELSE {}

\* the concordance as it was right after the operation at position p
OpsAfter(p) ==
    SubSeq(worker.ops, 1, CHOOSE j \in 1..Len(worker.ops) : worker.ops[j] = p)

\* C22: for every operation index k the worker has executed successfully,
\* the concordance is persisted as the cache entry of q[:k+1] and the status
\* of q[:k+1] is finished with concsize equal to the size after that
\* operation; this holds before the next operation is executed.
C22_StepPersisted ==
    (worker.pc # "resolve") =>
        \A k \in CompletedSteps :
            /\ files[k + 1] = "complete"
            /\ cmap[k + 1].exists /\ cmap[k + 1].finished
            /\ cmap[k + 1].concsize = conc_size(OpsAfter(k + 1))

\* two steps completed on a cached base, a third one about to be executed
C22_Witness ==
    /\ worker.pc = "done" /\ worker.exc = None
    /\ ans.conc.kind = "PyConc" /\ ans.idx = 1
    /\ CompletedSteps = {1, 2}
    /\ cmap[2].concsize = 2 /\ cmap[3].concsize = 3
    /\ ~cmap0[2].finished /\ ~cmap0[3].finished

\* the operation codes that cannot be saved
VolatileCodes == {"g", "a", "e"}

\* every prefix from step k to the end of the query is marked failed
FailedFrom(m, k) ==
    \A j \in (k + 1)..Len(q) : m[j].exists /\ m[j].finished /\ m[j].error # None

\* C23: at a step whose operation code is 'g', 'a' or 'e' the worker aborts
\* with a not-implemented failure: no cache file is saved, no success status
\* is written for the step, and the step and all later ones are marked failed.
C23_VolatileAborts ==
    [][(worker.pc = "check" /\ command(q[worker.act + 1]) \in VolatileCodes) =>
          /\ worker'.pc = "done"
          /\ worker'.exc = "NotImplementedError"
          /\ files' = files
          /\ FailedFrom(cmap', worker.act)
          /\ \A j \in 1..worker.act : cmap'[j] = cmap[j]]_vars

C23_Witness ==
    /\ YDone /\ worker.exc = "NotImplementedError"
    /\ worker.act = 1 /\ Len(q) = 3
    /\ q[2] = "g"
    /\ files[2] = "absent" /\ files[3] = "absent"
    /\ cmap[1].finished /\ cmap[1].error = None
    /\ FailedFrom(cmap, 1)

\* the step the worker is at: the resolver's call and the first operation
\* are step 0, an iteration of the loop is step act
StepAt ==
    IF worker.pc \in {"resolve", "first_compute", "first_save", "first_update"}
    THEN 0 ELSE worker.act

\* C24: when an exception occurs at step k, exactly the statuses of q[:k+1]
\* .. q[:len(q)] are set finished with error, the statuses of the shorter
\* prefixes stay as they are, and no further step is executed.
C24_FailureMarksRest ==
    [][/\ (worker.pc # "done" /\ worker'.pc = "done" /\ worker'.exc # None) =>
             /\ FailedFrom(cmap', StepAt)
             /\ \A j \in 1..StepAt : cmap'[j] = cmap[j]
             /\ worker'.executed = worker.executed
       /\ (worker.pc = "done") => UNCHANGED <<cmap, files, worker>>]_vars

\* the engine fails at step 1 of three: q[:1] stays finished, q[:2] and q[:3]
\* are marked
C24_Witness ==
    /\ YDone /\ worker.exc = "Exception"
    /\ Len(q) = 3 /\ worker.act = 1 /\ worker.calc_from = 1
    /\ cmap[1].finished /\ cmap[1].error = None /\ cmap[1] = cmap0[1]
    /\ ~cmap0[2].finished /\ ~cmap0[3].finished
    /\ FailedFrom(cmap, 1)

\* C25: whenever the worker returns, no prefix from the resolved base to the
\* end of the query is left with an unfinished status.
C25_NothingLeftInProgress ==
    YDone => \A j \in (ans.idx + 1)..Len(q) : cmap[j].exists => cmap[j].finished

\* C31: update with an unrecognized field name fails, and when it fails none
\* of the fields supplied in the same call has been applied: the status,
\* last_upd included, is as it was before the call.
C31_UnknownFieldAtomic ==
    (Called("update") /\ Supplied("bogus=1")) =>
        /\ worker.err # None
        /\ worker.st = worker.before

\* ------------------------------------------ _contains_shuffle_seq (C40)

\* C40: _contains_shuffle_seq(q) is true if and only if q has two directly
\* adjacent elements that are both 'f'; any other element in between resets
\* the detection, and the empty sequence gives false.
C40_AdjacentShuffles ==
    (worker.pc = "shuffle" /\ worker.called) =>
        (worker.ret <=> HasAdjacentShuffles(q))

\* the example of the docstring
C40_Witness ==
    /\ worker.pc = "shuffle" /\ worker.called
    /\ q = <<"foo", "bar", "f", "f", "something">>
    /\ worker.ret

\* --------------------- the operations behind a saved entry (C39)

\* the operations q[0] .. q[k-1], each once and in order
AllOpsUpTo(k) == [j \in 1..k |-> j]

\* C39: every cache entry q[:k] the synchronous worker marks finished holds
\* the result of applying exactly the operations q[0] .. q[k-1] in order,
\* each once, whatever (start index, base) the resolver returned.
C39_ExactOperations ==
    /\ (worker.pc = "first_update") => worker.ops = AllOpsUpTo(1)
    /\ (worker.pc = "update") => worker.ops = AllOpsUpTo(worker.act + 1)

\* ------------------------------------------- entries older than the corpus (C37)

\* C37: find_cached_conc_base never returns a concordance loaded from an
\* entry created before the corpus was last modified, for the full query and
\* for every shorter prefix alike.
C37_NeverStale ==
    (pc = "done" /\ result = "returned" /\ ans.idx > 0 /\ ans.conc.kind = "PyConc") =>
        /\ cmap[ans.idx].exists
        /\ cmap[ans.idx].created >= CorpMtime

\* ------------------------------------------------------ termination (C38)

\* the time budget of the wait in ticks, by the value of minsize
BudgetTicks ==
    (IF minsize >= 0 THEN WAIT_LIMIT_PARTIAL ELSE WAIT_LIMIT_FULL) * TicksPerSec

\* the wait goes to sleep for the wi-th time only if the wi - 1 sleeps before
\* (0.1 s, 0.2 s, ...) have not used up the budget
PollsBounded == (pc = "sleep") => ((wi - 1) * wi) \div 2 < BudgetTicks

\* each prefix is waited on at most once
PrefixesBounded ==
    /\ Len(examined) <= Len(q)
    /\ \A a, b \in 1..Len(examined) : a < b => examined[a] > examined[b]

\* C38: wait_for_conc and find_cached_conc_base always terminate, by
\* returning or raising, whatever the writer does; each wait makes a number of
\* polls bounded by its budget and the linear backoff, and the resolver waits
\* on at most len(q) prefixes.
C38_Terminates ==
    /\ <>(pc = "done")
    /\ [](PollsBounded /\ PrefixesBounded)

\* both prefixes of a query were waited on for the whole of the long budget
\* while no other process did anything
C38_Witness ==
    /\ pc = "done" /\ envSteps = 0 /\ minsize = -1
    /\ Len(q) = 2 /\ examined = <<2, 1>>
    /\ now - StartSec * TicksPerSec >= 2 * WAIT_LIMIT_FULL * TicksPerSec

\* ---------------------------- the worker's status updates (C32, C33)

\* C32: terminal states are absorbing: once the stored status is finished,
\* no later update of the worker changes its size or sets finished back to
\* false, and once error is set no later update clears it.
C32_TerminalAbsorbing ==
    [][(cmap[Target].exists /\ worker.pc # "idle") =>
          /\ cmap[Target].finished =>
                /\ cmap'[Target].finished
                /\ cmap'[Target].concsize = cmap[Target].concsize
          /\ cmap[Target].error # None => cmap'[Target].error # None]_vars

\* finished was published inside the loop and the final update follows
C32_Witness ==
    /\ worker.pc = "final_update"
    /\ cmap[Target].exists /\ cmap[Target].finished
    /\ cmap[Target].error = None

\* the worker publishes its sizes: the update_calc_status of the loop or the
\* one after it
AtPublish == worker.pc \in {"sizes", "final_update"}

\* the worker has published its sizes before
HadPublished ==
    \/ worker.pc = "sizes" /\ worker.iter >= 2
    \/ worker.pc = "final_update" /\ worker.iter >= 1

\* C33 as stated: each update of a worker run carries a last_upd strictly
\* greater than the one before it.
C33_Original ==
    [][(AtPublish /\ HadPublished /\ worker'.pc \in {"loop", "add_to_map"}) =>
          cmap'[Target].last_upd > cmap[Target].last_upd]_vars

\* C33: each update of a worker run carries a last_upd greater than or equal
\* to the one before it; updates made within the same second carry the same
\* last_upd.
C33_NonDecreasing ==
    [][(AtPublish /\ HadPublished /\ worker'.pc \in {"loop", "add_to_map"}) =>
          /\ cmap'[Target].last_upd >= cmap[Target].last_upd
          /\ (IntTime(now') = cmap[Target].last_upd) =>
                cmap'[Target].last_upd = cmap[Target].last_upd]_vars

\* the fourth update of the loop is the first one made in a later second
C33_Witness ==
    /\ worker.pc = "loop" /\ worker.iter = 4 /\ worker.exc = None
    /\ cmap[Target].last_upd = StartSec + 1
    /\ now = StartSec * TicksPerSec + 11

\* ------------------------------------------------- refresh_map (C34)

\* C34: refresh_map is idempotent: after two calls in succession the cache
\* map, as the other operations show it, is as it was after the first.
C34_RefreshIdempotent ==
    (worker.pc = "map" /\ worker.refreshes = 2) =>
        Observable(Backing(worker.ready, cmap, files)) = worker.once

\* two refreshes in succession of a cache map whose storage had been removed
C34_Witness ==
    /\ worker.pc = "map" /\ worker.refreshes = 2
    /\ worker.ready /\ worker.once.ready
    /\ \E k \in 1..Len(q) : cmap[k].exists /\ files[k] = "absent"

\* --------------------------------- readers and writers (C35, C36)

\* C35: under every interleaving of workers, resolver passes and
\* cancellations, find_cached_conc_base returns a loaded concordance only
\* from a cache file that was completely written and holds the whole result
\* of a finished calculation.
C35_LoadsCompleteOnly ==
    (pc = "done" /\ result = "returned" /\ ans.conc.kind = "PyConc") =>
        ans.conc.content = "complete"

\* C36: in every reachable state, a stored status that is finished without
\* error has a cache file that exists and holds the complete result.
C36_FinishedHasFile ==
    \A k \in 1..Len(q) :
        (cmap[k].exists /\ cmap[k].finished /\ cmap[k].error = None) =>
            files[k] = "complete"

====
